---- MODULE Spec2Model ----
(***************************************************************************)
(* Receipt text extraction of xpnse-backend: parseReceiptText of           *)
(* src/services/ocr.js, modelled character by character.  A JavaScript     *)
(* string is a sequence of one-character strings; every regular expression *)
(* of the function is an operator that matches as the expression does.     *)
(***************************************************************************)
EXTENDS Integers, Sequences, FiniteSets, TLC

\* ------------------------------------------------------------- bounds

\* Number of chunks of text an input is assembled from.
MaxChunks == 2

\* Decimal places kept of a parsed number (the inputs use at most three).
FracDigits == 3

\* Asynchronous calls in flight at once.
MaxCalls == 2

\* Identifiers the database generates before the model stops creating rows.
MaxRows == 3

\* ------------------------------------------------------------- characters

Chars(s) == [i \in 1..Len(s) |-> SubSeq(s, i, i)]

\* A list of strings as a list of character sequences.
Words(ws) == [k \in 1..Len(ws) |-> Chars(ws[k])]

\* The string of the characters i..j of cs.
RECURSIVE StrOf(_, _, _)
StrOf(cs, i, j) ==
  IF i > j THEN ""
  ELSE IF i = j THEN cs[i]
  ELSE StrOf(cs, i, (i + j) \div 2) \o StrOf(cs, ((i + j) \div 2) + 1, j)

Str(cs) == StrOf(cs, 1, Len(cs))

Digit == {"0", "1", "2", "3", "4", "5", "6", "7", "8", "9"}

DigitVal(c) ==
  CASE c = "0" -> 0 [] c = "1" -> 1 [] c = "2" -> 2 [] c = "3" -> 3
    [] c = "4" -> 4 [] c = "5" -> 5 [] c = "6" -> 6 [] c = "7" -> 7
    [] c = "8" -> 8 [] c = "9" -> 9

\* \s of a JavaScript regular expression, and what trim() strips.
Space == {" ", "\t", "\r", "\n", "\f"}

UpperSeq == Chars("ABCDEFGHIJKLMNOPQRSTUVWXYZ")

LowerSeq == Chars("abcdefghijklmnopqrstuvwxyz")

Upper == {UpperSeq[i] : i \in 1..26}

LowerCase == {LowerSeq[i] : i \in 1..26}

Letter == Upper \cup LowerCase

LowerMap == [c \in Upper |-> LowerSeq[CHOOSE i \in 1..26 : UpperSeq[i] = c]]

\* String.prototype.toLowerCase, one character.
Lower(c) == IF c \in Upper THEN LowerMap[c] ELSE c

toLowerCase(s) == [i \in 1..Len(s) |-> Lower(s[i])]

\* The character at i, or "" past either end.
At(s, i) == IF i >= 1 /\ i <= Len(s) THEN s[i] ELSE ""

\* How many characters from i on belong to the class C (a greedy C*).
RECURSIVE Run(_, _, _)
Run(s, i, C) == IF i <= Len(s) /\ s[i] \in C THEN 1 + Run(s, i + 1, C) ELSE 0

\* The literal w stands at i.
LitAt(s, i, w) ==
  /\ i + Len(w) - 1 <= Len(s)
  /\ \A k \in 1..Len(w) : s[i + k - 1] = w[k]

\* The literal w (given in lower case) stands at i, in any letter case (/i).
LitAtI(s, i, w) ==
  /\ i + Len(w) - 1 <= Len(s)
  /\ \A k \in 1..Len(w) : Lower(s[i + k - 1]) = w[k]

\* String.prototype.includes
includes(s, w) == \E i \in 1..(Len(s) - Len(w) + 1) : s[i] = w[1] /\ LitAt(s, i, w)

\* String.prototype.trim
RECURSIVE TrimEnd(_)
TrimEnd(s) ==
  IF Len(s) > 0 /\ s[Len(s)] \in Space THEN TrimEnd(SubSeq(s, 1, Len(s) - 1)) ELSE s

trim(s) == LET k == Run(s, 1, Space) IN TrimEnd(SubSeq(s, k + 1, Len(s)))

\* String.prototype.split('\n'): the pieces between line feeds, empty ones kept.
RECURSIVE LineLen(_, _)
\* How many characters from i on precede the next line feed.
LineLen(s, i) == IF i <= Len(s) /\ s[i] /= "\n" THEN 1 + LineLen(s, i + 1) ELSE 0

RECURSIVE SplitFrom(_, _)
SplitFrom(s, start) ==
  LET n == LineLen(s, start) IN
  IF start + n > Len(s) THEN <<SubSeq(s, start, Len(s))>>
  ELSE <<SubSeq(s, start, start + n - 1)>> \o SplitFrom(s, start + n + 1)

split(s) == SplitFrom(s, 1)

\* text.split('\n').filter(line => line.trim()): a line is kept, untrimmed,
\* when its trimmed form is not empty.
lines(text) == SelectSeq(split(text), LAMBDA l : trim(l) /= <<>>)

\* Array.prototype.join(' ')
RECURSIVE join(_)
join(ls) ==
  IF ls = <<>> THEN <<>>
  ELSE IF Len(ls) = 1 THEN ls[1]
  ELSE ls[1] \o <<" ">> \o join(Tail(ls))

\* String.prototype.substring(0, n)
substring(s, n) == SubSeq(s, 1, IF Len(s) < n THEN Len(s) ELSE n)

\* ------------------------------------------------------------- merchant

MerchantScan == 5

MerchantMinLen == 3

MerchantMaxLines == 2

MerchantMaxLen == 100

UnknownMerchant == "Unknown Merchant"

\* /^\d+$/
IsAllDigits(l) == Len(l) >= 1 /\ \A i \in 1..Len(l) : l[i] \in Digit

DateSep == {"-", "/"}

\* /^\d{1,2}[-\/]\d{1,2}[-\/]\d{2,4}$/
IsShortDate(l) ==
  \E a \in 1..2, b \in 1..2, c \in 2..4 :
    /\ Len(l) = a + b + c + 2
    /\ \A i \in 1..a : l[i] \in Digit
    /\ l[a + 1] \in DateSep
    /\ \A i \in (a + 2)..(a + b + 1) : l[i] \in Digit
    /\ l[a + b + 2] \in DateSep
    /\ \A i \in (a + b + 3)..(a + b + c + 2) : l[i] \in Digit

\* The line test with lines of three characters let through.
IsMerchantLineFromThree(line) ==
  Len(line) >= MerchantMinLen /\ ~IsAllDigits(line) /\ ~IsShortDate(line)

\* Line 195.
IsMerchantLine(line) ==
  Len(line) > MerchantMinLen /\ ~IsAllDigits(line) /\ ~IsShortDate(line)

\* The loop of lines 192-199: i runs over the first five lines and stops
\* after the second qualifying one.
RECURSIVE potentialMerchantLines(_, _, _)
potentialMerchantLines(ls, i, acc) ==
  IF i > Len(ls) \/ i > MerchantScan \/ Len(acc) >= MerchantMaxLines THEN acc
  ELSE LET line == trim(ls[i]) IN
       potentialMerchantLines(ls, i + 1,
         IF IsMerchantLine(line) THEN Append(acc, line) ELSE acc)

\* The merchant without the placeholder of line 189.
merchantOfNoDefault(ls) ==
  Str(substring(join(potentialMerchantLines(ls, 1, <<>>)), MerchantMaxLen))

\* Lines 189 and 201-203.
merchantOf(ls) ==
  IF Len(potentialMerchantLines(ls, 1, <<>>)) > 0
  THEN Str(substring(join(potentialMerchantLines(ls, 1, <<>>)), MerchantMaxLen))
  ELSE UnknownMerchant

\* ------------------------------------------------------------- calendar

\* An instant: the UTC calendar day and hour of a JavaScript Date.
IsLeap(y) == (y % 4 = 0 /\ y % 100 /= 0) \/ y % 400 = 0

DaysInMonth(y, m) ==
  IF m = 2 THEN (IF IsLeap(y) THEN 29 ELSE 28)
  ELSE IF m \in {4, 6, 9, 11} THEN 30 ELSE 31

PrevDay(t) ==
  IF t.d > 1 THEN [t EXCEPT !.d = t.d - 1]
  ELSE IF t.m > 1 THEN [t EXCEPT !.m = t.m - 1, !.d = DaysInMonth(t.y, t.m - 1)]
  ELSE [t EXCEPT !.y = t.y - 1, !.m = 12, !.d = 31]

NextDay(t) ==
  IF t.d < DaysInMonth(t.y, t.m) THEN [t EXCEPT !.d = t.d + 1]
  ELSE IF t.m < 12 THEN [t EXCEPT !.m = t.m + 1, !.d = 1]
  ELSE [t EXCEPT !.y = t.y + 1, !.m = 1, !.d = 1]

\* MakeDay: a day of month past the end of the month runs into the next one.
MakeDay(y, m, d) ==
  IF d <= DaysInMonth(y, m) THEN [y |-> y, m |-> m, d |-> d]
  ELSE IF m < 12 THEN [y |-> y, m |-> m + 1, d |-> d - DaysInMonth(y, m)]
  ELSE [y |-> y + 1, m |-> 1, d |-> d - 31]

\* The instant of local midnight of a calendar day, zone tz hours east of UTC.
LocalMidnight(day, tz) ==
  IF tz > 0 THEN LET p == PrevDay(day) IN [y |-> p.y, m |-> p.m, d |-> p.d, h |-> 24 - tz]
  ELSE [y |-> day.y, m |-> day.m, d |-> day.d, h |-> 0 - tz]

UTCMidnight(day) == [y |-> day.y, m |-> day.m, d |-> day.d, h |-> 0]

\* The local calendar day of an instant.
LocalDay(t, tz) ==
  LET day == [y |-> t.y, m |-> t.m, d |-> t.d] IN
  IF t.h + tz < 0 THEN PrevDay(day)
  ELSE IF t.h + tz >= 24 THEN NextDay(day) ELSE day

\* Date.prototype.getFullYear
getFullYear(t, tz) == LocalDay(t, tz).y

DigitSeq == Chars("0123456789")

Pad2(n) == <<DigitSeq[((n \div 10) % 10) + 1], DigitSeq[(n % 10) + 1]>>

Pad4(n) == Pad2(n \div 100) \o Pad2(n % 100)

\* Date.prototype.toISOString().split('T')[0]
toISODate(t) == Str(Pad4(t.y) \o <<"-">> \o Pad2(t.m) \o <<"-">> \o Pad2(t.d))

\* ------------------------------------------------------------- new Date(string)

\* The not-a-number of a Date or of a number.
NaN == [nan |-> TRUE]

RECURSIVE NumVal(_, _, _)
\* The value of the n digits that end at position i + n - 1.
NumVal(s, i, n) ==
  IF n = 0 THEN 0 ELSE NumVal(s, i, n - 1) * 10 + DigitVal(s[i + n - 1])

MonthNames ==
  Words(<<"jan", "feb", "mar", "apr", "may", "jun", "jul", "aug", "sep", "oct", "nov", "dec">>)

\* The month (1..12) whose three-letter name stands at i in any case, or 0.
MonthAt(s, i) ==
  IF \E k \in 1..12 : LitAtI(s, i, MonthNames[k])
  THEN CHOOSE k \in 1..12 : LitAtI(s, i, MonthNames[k])
  ELSE 0

\* The legacy date parser's scan: numbers go to the day composer (at most
\* three, a '-' after a number is skipped), a word that begins like a month
\* name names the month, any other word is garbage, other symbols are ignored.
RECURSIVE LegacyScan(_, _, _)
LegacyScan(s, i, acc) ==
  IF acc.bad \/ i > Len(s) THEN acc
  ELSE IF s[i] \in Digit THEN
    LET n == Run(s, i, Digit)
        skip == IF At(s, i + n) = "-" THEN 1 ELSE 0
    IN IF Len(acc.comp) >= 3 THEN [acc EXCEPT !.bad = TRUE]
       ELSE LegacyScan(s, i + n + skip,
              [acc EXCEPT !.comp = Append(acc.comp, NumVal(s, i, n))])
  ELSE IF s[i] \in Letter THEN
    LET n == Run(s, i, Letter)
        skip == IF At(s, i + n) = "-" THEN 1 ELSE 0
    IN IF MonthAt(s, i) > 0
       THEN LegacyScan(s, i + n + skip, [acc EXCEPT !.month = MonthAt(s, i)])
       ELSE [acc EXCEPT !.bad = TRUE]
  ELSE IF s[i] \in {"+", "-", ")"} /\ Len(acc.comp) > 0 THEN [acc EXCEPT !.bad = TRUE]
  ELSE LegacyScan(s, i + 1, acc)

IsMonth(x) == x >= 1 /\ x <= 12

IsDay(x) == x >= 1 /\ x <= 31

\* Two-digit years of the legacy parser.
LegacyYear(y) == IF y >= 0 /\ y <= 49 THEN y + 2000 ELSE IF y >= 50 /\ y <= 99 THEN y + 1900 ELSE y

\* DayComposer::Write of the legacy parser: missing components default to 1,
\* then the order of year, month and day is read off the first component.
LegacyCompose(acc) ==
  LET c == acc.comp \o SubSeq(<<1, 1, 1>>, 1, 3 - Len(acc.comp))
      ymd == IF acc.month = 0
             THEN IF ~IsDay(c[1]) THEN <<c[1], c[2], c[3]>> ELSE <<c[3], c[1], c[2]>>
             ELSE IF ~IsDay(c[1]) THEN <<c[1], acc.month, c[2]>>
                  ELSE <<c[2], acc.month, c[1]>>
  IN IF acc.bad \/ Len(acc.comp) < 1 \/ ~IsMonth(ymd[2]) \/ ~IsDay(ymd[3]) THEN NaN
     ELSE MakeDay(LegacyYear(ymd[1]), ymd[2], ymd[3])

\* The ES5 date-only form YYYY-MM-DD with a month 1..12 and a day 1..31.
IsISODate(s) ==
  /\ Len(s) = 10
  /\ \A i \in {1, 2, 3, 4, 6, 7, 9, 10} : s[i] \in Digit
  /\ s[5] = "-" /\ s[8] = "-"
  /\ IsMonth(NumVal(s, 6, 2)) /\ IsDay(NumVal(s, 9, 2))

\* The instant of local midnight of a composed day, NaN of NaN.
AtLocalMidnight(day, tz) == IF day = NaN THEN NaN ELSE LocalMidnight(day, tz)

\* new Date(dateStr): NaN, or the instant. A date-only ISO string is UTC
\* midnight; every other accepted string is local midnight.
NewDate(s, tz) ==
  IF IsISODate(s)
  THEN UTCMidnight(MakeDay(NumVal(s, 1, 4), NumVal(s, 6, 2), NumVal(s, 9, 2)))
  ELSE AtLocalMidnight(
         LegacyCompose(LegacyScan(s, 1, [comp |-> <<>>, month |-> 0, bad |-> FALSE])), tz)

\* ------------------------------------------------------------- regular expressions

\* n digits stand at i.
DigitsAt(s, i, n) == \A k \in 0..(n - 1) : At(s, i + k) \in Digit

NoMatch == [at |-> 0, len |-> 0]

\* The least of a non-empty set of positions.
Min(S) == CHOOSE j \in S : \A k \in S : j <= k

Matched(s, m) == SubSeq(s, m.at, m.at + m.len - 1)

\* /(\d{1,2}[-\/]\d{1,2}[-\/]\d{4})/
D1Try(s, i, a, b) ==
  /\ DigitsAt(s, i, a) /\ At(s, i + a) \in DateSep
  /\ DigitsAt(s, i + a + 1, b) /\ At(s, i + a + b + 1) \in DateSep
  /\ DigitsAt(s, i + a + b + 2, 4)

datePattern1(s, i) ==
  IF D1Try(s, i, 2, 2) THEN 10
  ELSE IF D1Try(s, i, 2, 1) \/ D1Try(s, i, 1, 2) THEN 9
  ELSE IF D1Try(s, i, 1, 1) THEN 8 ELSE 0

\* /(\d{4}[-\/]\d{1,2}[-\/]\d{1,2})/
D2Try(s, i, a) ==
  /\ DigitsAt(s, i, 4) /\ At(s, i + 4) \in DateSep
  /\ DigitsAt(s, i + 5, a) /\ At(s, i + 5 + a) \in DateSep
  /\ DigitsAt(s, i + 6 + a, 1)

datePattern2(s, i) ==
  LET a == IF D2Try(s, i, 2) THEN 2 ELSE IF D2Try(s, i, 1) THEN 1 ELSE 0 IN
  IF a = 0 THEN 0
  ELSE 6 + a + (IF DigitsAt(s, i + 6 + a, 2) THEN 2 ELSE 1)

\* Month[a-z]*\s+ at i, case-insensitive: its length, 0 when it does not match.
MonthWord(s, i) ==
  IF MonthAt(s, i) = 0 THEN 0
  ELSE LET l == Run(s, i + 3, Letter)
           w == Run(s, i + 3 + l, Space)
       IN IF w = 0 THEN 0 ELSE 3 + l + w

\* /(\d{1,2}\s+(?:Jan|...|Dec)[a-z]*\s+\d{4})/i
D3Try(s, i, a) ==
  LET w == Run(s, i + a, Space)
      mw == MonthWord(s, i + a + w)
  IN IF DigitsAt(s, i, a) /\ w > 0 /\ mw > 0 /\ DigitsAt(s, i + a + w + mw, 4)
     THEN a + w + mw + 4 ELSE 0

datePattern3(s, i) == IF D3Try(s, i, 2) > 0 THEN D3Try(s, i, 2) ELSE D3Try(s, i, 1)

\* /(?:Jan|...|Dec)[a-z]*\s+\d{1,2},?\s+\d{4}/i
D4Try(s, i, a) ==
  LET mw == MonthWord(s, i)
      c == IF At(s, i + mw + a) = "," THEN 1 ELSE 0
      w == Run(s, i + mw + a + c, Space)
  IN IF mw > 0 /\ DigitsAt(s, i + mw, a) /\ w > 0 /\ DigitsAt(s, i + mw + a + c + w, 4)
     THEN mw + a + c + w + 4 ELSE 0

datePattern4(s, i) == IF D4Try(s, i, 2) > 0 THEN D4Try(s, i, 2) ELSE D4Try(s, i, 1)

\* /(\d{2}[-\/]\d{2}[-\/]\d{2})/
datePattern5(s, i) ==
  IF /\ DigitsAt(s, i, 2) /\ At(s, i + 2) \in DateSep
     /\ DigitsAt(s, i + 3, 2) /\ At(s, i + 5) \in DateSep
     /\ DigitsAt(s, i + 6, 2)
  THEN 8 ELSE 0

NumDatePatterns == 5

\* The first letters of the month names, in either case.
MonthInitials == {"J", "F", "M", "A", "S", "O", "N", "D", "j", "f", "m", "a", "s", "o", "n", "d"}

\* The length of the match of datePatterns[k - 1] at i, 0 when it does not
\* match there.
datePatternAt(s, k, i) ==
  CASE k = 1 -> datePattern1(s, i)
    [] k = 2 -> datePattern2(s, i)
    [] k = 3 -> datePattern3(s, i)
    [] k = 4 -> datePattern4(s, i)
    [] k = 5 -> datePattern5(s, i)

\* The characters a match of datePatterns[k - 1] can begin with.
DateInitials(k) == IF k = 4 THEN MonthInitials ELSE Digit

\* The match at the leftmost of the positions hits, no match when there is none.
dateMatchIn(s, k, hits) ==
  IF hits = {} THEN NoMatch
  ELSE [at |-> Min(hits), len |-> datePatternAt(s, k, Min(hits))]

\* text.match(datePatterns[k - 1]): without the g flag, the leftmost match.
datePatterns(text, k) ==
  dateMatchIn(text, k,
    {i \in 1..Len(text) : text[i] \in DateInitials(k) /\ datePatternAt(text, k, i) > 0})

\* ------------------------------------------------------------- date

\* /^\d{2}[-\/]\d{2}[-\/]\d{2}$/
IsTwoDigitYearForm(m) == Len(m) = 8 /\ datePattern5(m, 1) = 8

PivotYear == 50

\* Lines 220-225: a two-digit-year match is rewritten with a four-digit year.
dateStr(m) ==
  IF IsTwoDigitYearForm(m)
  THEN LET year == NumVal(m, 7, 2)
           fullYear == IF year < PivotYear THEN 2000 + year ELSE 1900 + year
       IN SubSeq(m, 1, 2) \o <<"-">> \o SubSeq(m, 4, 5) \o <<"-">> \o Pad4(fullYear)
  ELSE m

MinYear == 2000

\* The year test without its upper bound.
DateAcceptedNoUpperBound(parsedDate, now, tz) ==
  parsedDate /= NaN /\ getFullYear(parsedDate, tz) > MinYear

\* Line 228: the year test reads the local year of the parsed date and of now.
DateAccepted(parsedDate, now, tz) ==
  /\ parsedDate /= NaN
  /\ getFullYear(parsedDate, tz) > MinYear
  /\ getFullYear(parsedDate, tz) <= getFullYear(now, tz)

RECURSIVE dateFrom(_, _, _, _)

\* Lines 217-231 for the match m of pattern k and the date parsedDate read off it.
dateFromParsed(text, k, m, parsedDate, now, tz) ==
  IF m.at > 0 /\ DateAccepted(parsedDate, now, tz)
  THEN toISODate(parsedDate)
  ELSE dateFrom(text, k + 1, now, tz)

dateFromMatch(text, k, m, now, tz) ==
  dateFromParsed(text, k, m, NewDate(dateStr(Matched(text, m)), tz), now, tz)

\* The loop of lines 215-236 from pattern k on; the default of line 206 when
\* no pattern is left.
dateFrom(text, k, now, tz) ==
  IF k > NumDatePatterns THEN toISODate(now)
  ELSE dateFromMatch(text, k, datePatterns(text, k), now, tz)

dateOf(text, now, tz) == dateFrom(text, 1, now, tz)

\* ------------------------------------------------------------- numbers

RECURSIVE Pow10(_)
Pow10(n) == IF n = 0 THEN 1 ELSE 10 * Pow10(n - 1)

\* A number is NaN or [i |-> integer part, f |-> fraction in units of
\* 10^-FracDigits]; digits past FracDigits places are dropped.
Dec(i, cents) == [i |-> i, f |-> cents * Pow10(FracDigits - 2)]

Zero == Dec(0, 0)

LT(a, b) == a.i < b.i \/ (a.i = b.i /\ a.f < b.f)

\* a * k for a small natural k.
Times(a, k) == [i |-> a.i * k + ((a.f * k) \div Pow10(FracDigits)), f |-> (a.f * k) % Pow10(FracDigits)]

\* parseFloat of a string of digits and dots: the digits, then a dot and the
\* digits after it; NaN when there is no digit.
parseFloat(cs) ==
  LET ni == Run(cs, 1, Digit)
      nf == IF At(cs, ni + 1) = "." THEN Run(cs, ni + 2, Digit) ELSE 0
      kept == IF nf < FracDigits THEN nf ELSE FracDigits
  IN IF ni = 0 /\ nf = 0 THEN NaN
     ELSE [i |-> NumVal(cs, 1, ni), f |-> NumVal(cs, ni + 2, kept) * Pow10(FracDigits - kept)]

\* replace(/,/g, '')
StripCommas(cs) == SelectSeq(cs, LAMBDA c : c /= ",")

\* replace(/[^\d.]/g, '')
KeepDigitsAndDots(cs) == SelectSeq(cs, LAMBDA c : c \in Digit \cup {"."})

MaxAmount == 1000000

\* The range test without its upper bound.
InRangeNoUpperBound(amount) == amount /= NaN /\ LT(Zero, amount)

\* amount > 0 && amount < 1000000; both are false of NaN.
InRange(amount) == amount /= NaN /\ LT(Zero, amount) /\ amount.i < MaxAmount

\* Math.max(...amounts) of a non-empty list.
RECURSIVE MathMax(_)
MathMax(as) ==
  IF Len(as) = 1 THEN as[1]
  ELSE LET m == MathMax(Tail(as)) IN IF LT(m, as[1]) THEN as[1] ELSE m

\* ------------------------------------------------------------- total

DigitOrComma == Digit \cup {","}

\* (?:PHP|\$|Rs\.?) at i, case-insensitive where the pattern is: the lengths
\* it can take, longest first, 0 last (the marker is optional).
CurrencyLens(s, i, ci) ==
  LET php == IF ci THEN LitAtI(s, i, <<"p", "h", "p">>) ELSE LitAt(s, i, <<"P", "H", "P">>)
      rs == IF ci THEN LitAtI(s, i, <<"r", "s">>) ELSE LitAt(s, i, <<"R", "s">>)
  IN IF php THEN <<3, 0>>
     ELSE IF At(s, i) = "$" THEN <<1, 0>>
     ELSE IF rs /\ At(s, i + 2) = "." THEN <<3, 2, 0>>
     ELSE IF rs THEN <<2, 0>>
     ELSE <<0>>

\* \s*([\d,]+\.?\d*) at i: [ws |-> blanks, len |-> length of the group], len 0
\* when it does not match.
LabeledNumber(s, i) ==
  LET w == Run(s, i, Space)
      r == Run(s, i + w, DigitOrComma)
      dot == IF At(s, i + w + r) = "." THEN 1 ELSE 0
      d == Run(s, i + w + r + dot, Digit)
  IN [ws |-> w, len |-> IF r = 0 THEN 0 ELSE r + dot + d]

\* label[:\s]*(?:PHP|\$|Rs\.?)?\s*([\d,]+\.?\d*) with the label of length n
\* at i: [len |-> length of the match, g |-> start of the group, glen |->
\* its length], len 0 when it does not match.
NumberAfter(i, q, num) ==
  [len |-> q + num.ws + num.len - i, g |-> q + num.ws, glen |-> num.len]

RECURSIVE LabelTail(_, _, _, _)
LabelTail(s, i, p, lens) ==
  IF lens = <<>> THEN [len |-> 0, g |-> 0, glen |-> 0]
  ELSE IF LabeledNumber(s, p + Head(lens)).len > 0
       THEN NumberAfter(i, p + Head(lens), LabeledNumber(s, p + Head(lens)))
       ELSE LabelTail(s, i, p, Tail(lens))

LabelAt(s, i, labels) ==
  IF \E k \in 1..Len(labels) : LitAtI(s, i, labels[k])
  THEN Len(labels[CHOOSE k \in 1..Len(labels) : LitAtI(s, i, labels[k])])
  ELSE 0

\* The rest of the pattern from p on, where [:\s]* has ended.
AfterColons(s, i, p) == LabelTail(s, i, p, CurrencyLens(s, p, TRUE))

\* The rest of the pattern after a label of n characters at i.
AfterLabel(s, i, n) ==
  IF n = 0 THEN [len |-> 0, g |-> 0, glen |-> 0]
  ELSE AfterColons(s, i, i + n + Run(s, i + n, Space \cup {":"}))

Labeled(s, i, labels) == AfterLabel(s, i, LabelAt(s, i, labels))

TotalLabels == Words(<<"total", "amount due", "grand total", "balance", "net amount">>)

AmountLabels == Words(<<"amount", "payment">>)

\* /(?:TOTAL|AMOUNT DUE|GRAND TOTAL|BALANCE|NET AMOUNT)[:\s]*(...)?\s*([\d,]+\.?\d*)/i
totalPattern1(s, i) == Labeled(s, i, TotalLabels).len

\* /(?:AMOUNT|PAYMENT)[:\s]*(...)?\s*([\d,]+\.?\d*)/i
totalPattern2(s, i) == Labeled(s, i, AmountLabels).len

NumTotalPatterns == 2

\* The first letters of the labels, in either case.
TotalInitials == {"T", "A", "G", "B", "N", "t", "a", "g", "b", "n"}

AmountInitials == {"A", "P", "a", "p"}

\* text.match(totalPatterns[k - 1]): the match and its group 1.
Group(text, t) == SubSeq(text, t.g, t.g + t.glen - 1)

\* The labels and the first letters of totalPatterns[k - 1].
LabelsOf(k) == IF k = 1 THEN TotalLabels ELSE AmountLabels

InitialsOf(k) == IF k = 1 THEN TotalInitials ELSE AmountInitials

totalPatternAt(s, k, i) == IF k = 1 THEN totalPattern1(s, i) ELSE totalPattern2(s, i)

\* The match at the leftmost of the positions hits, with its group 1.
totalMatchIn(text, k, hits) ==
  IF hits = {} THEN [at |-> 0, group |-> <<>>]
  ELSE [at |-> Min(hits), group |-> Group(text, Labeled(text, Min(hits), LabelsOf(k)))]

\* text.match(totalPatterns[k - 1]): the leftmost match and its group 1.
totalPatterns(text, k) ==
  totalMatchIn(text, k,
    {i \in 1..Len(text) : text[i] \in InitialsOf(k) /\ totalPatternAt(text, k, i) > 0})

RECURSIVE labeledTotal(_, _)

\* Lines 247-253 for the match m of pattern k and the amount read off it.
totalFromAmount(text, k, m, amount) ==
  IF m.at > 0 /\ InRange(amount) THEN amount ELSE labeledTotal(text, k + 1)

totalFromMatch(text, k, m) ==
  totalFromAmount(text, k, m, parseFloat(StripCommas(m.group)))

\* The loop of lines 245-254 from pattern k on; 0 when no pattern gives an
\* amount in range.
labeledTotal(text, k) ==
  IF k > NumTotalPatterns THEN Zero
  ELSE totalFromMatch(text, k, totalPatterns(text, k))

LastLines == 10

\* slice(-10)
slice(ls, n) == IF Len(ls) <= n THEN ls ELSE SubSeq(ls, Len(ls) - n + 1, Len(ls))

\* Array.prototype.join('\n')
RECURSIVE joinLines(_)
joinLines(ls) ==
  IF ls = <<>> THEN <<>>
  ELSE IF Len(ls) = 1 THEN ls[1]
  ELSE ls[1] \o <<"\n">> \o joinLines(Tail(ls))

\* \s*([\d,]+\.\d{2}) at i: its length, 0 when it does not match.
TwoDecimal(s, i) ==
  LET w == Run(s, i, Space)
      r == Run(s, i + w, DigitOrComma)
  IN IF r > 0 /\ At(s, i + w + r) = "." /\ DigitsAt(s, i + w + r + 1, 2)
     THEN w + r + 3 ELSE 0

\* The first of the marker lengths with which the number follows.
RECURSIVE PricedTail(_, _, _)
PricedTail(s, i, lens) ==
  IF lens = <<>> THEN 0
  ELSE IF TwoDecimal(s, i + Head(lens)) > 0 THEN Head(lens) + TwoDecimal(s, i + Head(lens))
  ELSE PricedTail(s, i, Tail(lens))

\* /(?:PHP|\$|Rs\.?)?\s*([\d,]+\.\d{2})/ at i.
numberPattern(s, i) == PricedTail(s, i, CurrencyLens(s, i, FALSE))

RECURSIVE matchFrom(_, _, _)

\* The match of n characters at j, and the matches after it.
matchAt(s, hits, j, n) == <<SubSeq(s, j, j + n - 1)>> \o matchFrom(s, hits, j + n)

matchNext(s, hits, rest) ==
  IF rest = {} THEN <<>>
  ELSE matchAt(s, hits, Min(rest), numberPattern(s, Min(rest)))

\* String.prototype.match with the g flag: every match, left to right, each
\* search resuming where the match before it ended.
matchFrom(s, hits, i) == matchNext(s, hits, {j \in hits : j >= i})

\* The characters a match of the number pattern can begin with.
NumberInitials == {"P", "$", "R"} \cup Space \cup DigitOrComma

matchAll(s) ==
  matchFrom(s, {j \in 1..Len(s) : s[j] \in NumberInitials /\ numberPattern(s, j) > 0}, 1)

\* Lines 257-268: the largest in-range number of the last ten lines.
\* Lines 261-263: the numbers of the matches that are in range.
amountsOf(allNumbers) ==
  SelectSeq([k \in 1..Len(allNumbers) |-> parseFloat(KeepDigitsAndDots(allNumbers[k]))],
            InRange)

\* Lines 264-266.
largestOf(amounts) == IF Len(amounts) > 0 THEN MathMax(amounts) ELSE Zero

fallbackTotal(ls) == largestOf(amountsOf(matchAll(joinLines(slice(ls, LastLines)))))

\* Line 257: the fallback runs when the labeled patterns left total at 0.
withFallback(total, ls) == IF total = Zero THEN fallbackTotal(ls) ELSE total

totalOf(text, ls) == withFallback(labeledTotal(text, 1), ls)

\* ------------------------------------------------------------- items

\* What . does not match.
LineTerminator == {"\n", "\r"}

\* /^(.+?)\s+(?:PHP|\$|Rs\.?)?\s*([\d,]+\.\d{2})$/ with a name of k
\* characters: the length of group 2, 0 when the line does not match so.
RECURSIVE ItemTail(_, _, _)
ItemTail(l, p, lens) ==
  IF lens = <<>> THEN 0
  ELSE LET n == TwoDecimal(l, p + Head(lens)) IN
       IF n > 0 /\ p + Head(lens) + n = Len(l) + 1
       THEN n - Run(l, p + Head(lens), Space)
       ELSE ItemTail(l, p, Tail(lens))

ItemTry(l, k) ==
  LET w == Run(l, k + 1, Space) IN
  IF (\A j \in 1..k : l[j] \notin LineTerminator) /\ w > 0
  THEN ItemTail(l, k + 1 + w, CurrencyLens(l, k + 1 + w, FALSE))
  ELSE 0

\* line.match(itemPattern): the lazy name takes the fewest characters.
ShortestName(l, ks) ==
  IF ks = {} THEN [ok |-> FALSE, name |-> <<>>, group |-> <<>>]
  ELSE [ok |-> TRUE, name |-> SubSeq(l, 1, Min(ks)),
        group |-> SubSeq(l, Len(l) - ItemTry(l, Min(ks)) + 1, Len(l))]

itemPattern(l) == ShortestName(l, {k \in 1..Len(l) : ItemTry(l, k) > 0})

ExclusionKeywords ==
  Words(<<"total", "amount", "subtotal", "tax", "balance", "change", "discount">>)

\* /(TOTAL|AMOUNT|SUBTOTAL|TAX|BALANCE|CHANGE|DISCOUNT)/i.test(name)
IsExcluded(name) ==
  \E k \in 1..Len(ExclusionKeywords) :
    includes(toLowerCase(name), ExclusionKeywords[k])

\* The price test against the whole total.
BelowTotal(price, total) == LT(price, total)

\* price < total * 0.9
BelowNineTenths(price, total) == LT(Times(price, 10), Times(total, 9))

\* The test of lines 280-281.
IsItem(name, price, total) ==
  ~IsExcluded(name) /\ LT(Zero, price) /\ BelowNineTenths(price, total)

\* The body of the loop of lines 274-285 for one line: what it pushes.
pushIf(ok, name, price, total) ==
  IF ok /\ IsItem(name, price, total)
  THEN [push |-> TRUE, name |-> Str(name), price |-> price]
  ELSE [push |-> FALSE, name |-> "", price |-> Zero]

itemFromMatch(m, total) ==
  pushIf(m.ok, trim(m.name), parseFloat(StripCommas(m.group)), total)

itemOf(line, total) == itemFromMatch(itemPattern(line), total)

\* The name and price of each pushed item.
pushedItems(pushed) ==
  [k \in 1..Len(pushed) |-> [name |-> pushed[k].name, price |-> pushed[k].price]]

\* The loop of lines 274-285: the pushed items, in line order.
itemsOf(ls, total) ==
  pushedItems(SelectSeq([k \in 1..Len(ls) |-> itemOf(ls[k], total)], LAMBDA x : x.push))

\* ------------------------------------------------------------- category

Uncategorized == "Uncategorized"

categoryKeywords ==
  << [cat |-> "Food & Dining",
      keywords |-> Words(<<"restaurant", "cafe", "coffee", "food", "pizza", "burger", "diner",
                     "kitchen", "grill", "bistro", "mcdonald", "jollibee", "kfc">>)],
     [cat |-> "Groceries",
      keywords |-> Words(<<"grocery", "supermarket", "market", "store", "mart", "sari",
                     "puregold", "sm", "savemore">>)],
     [cat |-> "Utilities",
      keywords |-> Words(<<"electric", "water", "internet", "telco", "utility", "meralco",
                     "pldt", "globe", "smart", "converge">>)],
     [cat |-> "Transportation",
      keywords |-> Words(<<"gas", "fuel", "taxi", "transport", "parking", "grab", "angkas",
                     "shell", "petron", "caltex">>)],
     [cat |-> "Shopping",
      keywords |-> Words(<<"mall", "shop", "retail", "boutique", "department", "robinson",
                     "ayala", "lazada", "shopee">>)],
     [cat |-> "Healthcare",
      keywords |-> Words(<<"pharmacy", "hospital", "clinic", "medical", "drug", "mercury",
                     "watsons", "south star">>)] >>

\* The keyword test on the raw text alone.
SomeKeywordInText(keywords, merchantLower, textLower) ==
  \E k \in 1..Len(keywords) : includes(textLower, keywords[k])

\* keywords.some(keyword => merchantLower.includes(keyword) || textLower.includes(keyword))
SomeKeyword(keywords, merchantLower, textLower) ==
  \E k \in 1..Len(keywords) :
    includes(merchantLower, keywords[k]) \/ includes(textLower, keywords[k])

\* The loop of lines 301-306 from category k on.
RECURSIVE categoryFrom(_, _, _)
categoryFrom(k, merchantLower, textLower) ==
  IF k > Len(categoryKeywords) THEN Uncategorized
  ELSE IF SomeKeyword(categoryKeywords[k].keywords, merchantLower, textLower)
       THEN categoryKeywords[k].cat
       ELSE categoryFrom(k + 1, merchantLower, textLower)

\* The classification without the lower-casing of lines 298-299.
categoryOfCaseSensitive(merchant, text) == categoryFrom(1, Chars(merchant), text)

\* Lines 298-306.
categoryOf(merchant, text) ==
  categoryFrom(1, toLowerCase(Chars(merchant)), toLowerCase(text))

\* ------------------------------------------------------------- parseReceiptText

\* The record of lines 308-315; text is the raw string, now the instant the
\* clock reads and tz the zone of the process in hours east of UTC.
result(text, cs, ls, merchant, total, now, tz) ==
  [merchant |-> merchant,
   date |-> dateOf(cs, now, tz),
   total |-> total,
   items |-> itemsOf(ls, total),
   category |-> categoryOf(merchant, cs),
   rawText |-> text]

parseLines(text, cs, ls, now, tz) ==
  result(text, cs, ls, merchantOf(ls), totalOf(cs, ls), now, tz)

parseReceiptText(text, now, tz) == parseLines(text, Chars(text), lines(Chars(text)), now, tz)

\* ------------------------------------------------------------- inputs

ScenarioA == "JOLLIBEE\n123 Main St\n07/20/2024\nBurger 85.00\nFries 45.00\nTOTAL 130.00"

ScenarioC == "45.00\n12.50\n97.00"

TenLines == "a\nb\nc\nd\ne\nf\ng\nh\ni\nj"

\* The pieces a raw text is assembled from, one or more lines each.
Chunks ==
  { ScenarioA, ScenarioC, TenLines,
    " ", "01/01/2001", "JUL 20, 25", "13/45/2024", "3/15/2031", "15 Dec 2025",
    "Rs.250.00", "TOTAL 1,000,000.00", "TOTAL: ,", "Combo 120.00", "Water PHP 20.005" }

\* Pieces that carry category keywords, and one that carries none.
CategoryChunks ==
  { "Rose Pharmacy", "PHARMACY", "Corner Store", "South", "Star", "Shell",
    "Coffee", "Taxi fare", "1234" }

\* A line of sixty characters.
LongLine == "ACME GENERAL MERCHANDISE AND TRADING CORPORATION MAIN BRANCH "

\* Pieces whose lines exercise the merchant scan, the labeled totals, the
\* two-digit-year dates and lines with trailing blanks.
LineChunks ==
  { ScenarioA, TenLines, LongLine \o "X", "abc", "12345", "JUL 20, 25", "25-12-24", "11-12-24",
    "BALANCE $88.50", "TOTAL 90.00", "AMOUNT DUE 95.00", "Soda 20.00 " }

\* Pieces with a subtotal line, a total line and numeric dates with a
\* four-digit year.
SubtotalChunks ==
  { "SUBTOTAL 100.00", "TOTAL 112.00", "Tax 12.00", "12/25/1999", "07/20/2024", "Thank you" }

\* Hours east of UTC of the process.
TimeZones == {0 - 5, 0, 8}

\* The instants the clock may read.
Clock ==
  { [y |-> 2025, m |-> 7, d |-> 21, h |-> 12],
    [y |-> 2025, m |-> 12, d |-> 31, h |-> 20] }

\* ------------------------------------------------------------- state

VARIABLES
  text,        \* the raw OCR text handed to parseReceiptText
  nchunks,     \* how many chunks the text was assembled from
  now,         \* the instant new Date() reads
  tz,          \* the time zone of the process
  parsedData,  \* the record parseReceiptText returned, None before the call
  db,          \* the tables of the database, each a set of rows
  auth,        \* the users of Supabase Auth
  storage,     \* the file names held by the storage bucket 'receipts'
  nextId,      \* the next identifier the database generates
  calls,       \* the asynchronous calls in flight, each at its next await
  res          \* the response sent last, None before the first

parserVars == <<text, nchunks, now, tz, parsedData>>

serverVars == <<db, auth, storage, nextId, calls, res>>

vars == <<parserVars, serverVars>>

None == [none |-> TRUE]

Tables ==
  {"dim_user", "dim_category", "dim_store", "dim_date", "fact_expenses", "fact_receipts"}

\* No row, no user, no file, no call in flight and no response yet.
ServerInit ==
  /\ db = [t \in Tables |-> {}]
  /\ auth = {}
  /\ storage = {}
  /\ nextId = 1
  /\ calls = [c \in 1..MaxCalls |-> None]
  /\ res = None

Init ==
  /\ text = ""
  /\ nchunks = 0
  /\ now \in Clock
  /\ tz \in TimeZones
  /\ parsedData = None
  /\ ServerInit

\* The OCR result grows by another block of text (lines 367-369 join the
\* blocks with line feeds).
AppendChunk(c) ==
  /\ parsedData = None
  /\ nchunks < MaxChunks
  /\ text' = IF nchunks = 0 THEN c ELSE text \o "\n" \o c
  /\ nchunks' = nchunks + 1
  /\ UNCHANGED <<now, tz, parsedData, serverVars>>

\* Line 381: parsedData = parseReceiptText(extractedText).
Parse ==
  /\ parsedData = None
  /\ parsedData' = parseReceiptText(text, now, tz)
  /\ UNCHANGED <<text, nchunks, now, tz, serverVars>>

Next ==
  \/ \E c \in Chunks : AppendChunk(c)
  \/ Parse

Spec == Init /\ [][Next]_vars

Parsed == parsedData /= None

\* The same program on receipts that carry category keywords.
NextCategory ==
  \/ \E c \in CategoryChunks : AppendChunk(c)
  \/ Parse

SpecCategory == Init /\ [][NextCategory]_vars

\* The same program on receipts assembled from LineChunks.
NextLines ==
  \/ \E c \in LineChunks : AppendChunk(c)
  \/ Parse

SpecLines == Init /\ [][NextLines]_vars

\* The same program on receipts assembled from SubtotalChunks.
NextSubtotal ==
  \/ \E c \in SubtotalChunks : AppendChunk(c)
  \/ Parse

SpecSubtotal == Init /\ [][NextSubtotal]_vars

\* ------------------------------------------------------------- tables

\* .single(): the row when exactly one row is selected, no data otherwise.
single(rows) == IF Cardinality(rows) = 1 THEN CHOOSE r \in rows : TRUE ELSE None

\* .from(table).insert(row) on the tables d.
insert(d, table, row) == [d EXCEPT ![table] = @ \cup {row}]

\* ------------------------------------------------------------- sign-in

Emails == {"ann@mail.ph", "ben@mail.ph"}

Passwords == {"pw-1", "pw-2"}

\* The googleId of a request body, "" when the body has none.
GoogleIds == {"", "g-1"}

\* What a user created without a password has in its place.
NoPassword == ""

\* .from('dim_user').select(...).eq('email', email).single()
dimUserData(email) == single({u \in db.dim_user : u.email = email})

\* supabase.auth.admin.listUsers() and users.find(u => u.email === email)
userExists(email) == \E u \in auth : u.email = email

\* supabase.auth.signInWithPassword succeeds.
signInWithPassword(email, password) ==
  \E u \in auth : u.email = email /\ u.password = password

\* jwt.sign({ userId, email }, JWT_SECRET, ...): the claims of the token.
sign(userId, email) == [userId |-> userId, email |-> email]

\* The answer of a sign-in endpoint; token is None when none is issued.
answer(route, email, password, status, token) ==
  [route |-> route, email |-> email, password |-> password, status |-> status, token |-> token]

dimUserRow(userId, email, provider, googleId) ==
  [user_id |-> userId, email |-> email, auth_provider |-> provider, google_id |-> googleId]

\* POST /register. authError is the failure of createUser, dimUserError that
\* of the insert into dim_user, which is logged and otherwise ignored.
Register(email, password, authError, dimUserError) ==
  /\ nextId <= MaxRows
  /\ IF dimUserData(email) /= None \/ userExists(email)
     THEN /\ res' = answer("register", email, password, 409, None)
          /\ UNCHANGED <<db, auth, nextId>>
     ELSE IF authError
     THEN /\ res' = answer("register", email, password, 500, None)
          /\ UNCHANGED <<db, auth, nextId>>
     ELSE /\ auth' = auth \cup {[id |-> nextId, email |-> email, password |-> password]}
          /\ db' = IF dimUserError THEN db
                   ELSE insert(db, "dim_user", dimUserRow(nextId, email, "EMAIL", ""))
          /\ nextId' = nextId + 1
          /\ res' = answer("register", email, password, 201, sign(nextId, email))
  /\ UNCHANGED <<parserVars, storage, calls>>

\* POST /login
Login(email, password) ==
  /\ res' = IF dimUserData(email) = None
            THEN answer("login", email, password, 401, None)
            ELSE IF dimUserData(email).auth_provider = "GOOGLE"
            THEN answer("login", email, password, 400, None)
            ELSE IF ~signInWithPassword(email, password)
            THEN answer("login", email, password, 401, None)
            ELSE answer("login", email, password, 200, sign(dimUserData(email).user_id, email))
  /\ UNCHANGED <<parserVars, db, auth, storage, nextId, calls>>

\* .from('dim_user').update({ google_id: googleId }).eq('user_id', userId)
updateGoogleId(userId, googleId) ==
  [db EXCEPT !.dim_user =
     {IF u.user_id = userId THEN [u EXCEPT !.google_id = googleId] ELSE u : u \in @}]

\* POST /google. createError is the failure of createUser (it also fails for
\* an email Supabase Auth already holds), insertError that of the insert into
\* dim_user.
Google(email, googleId, createError, insertError) ==
  /\ nextId <= MaxRows
  /\ IF dimUserData(email) /= None
     THEN /\ db' = IF dimUserData(email).google_id = "" /\ googleId /= ""
                   THEN updateGoogleId(dimUserData(email).user_id, googleId) ELSE db
          /\ res' = answer("google", email, NoPassword, 200,
                           sign(dimUserData(email).user_id, email))
          /\ UNCHANGED <<auth, nextId>>
     ELSE IF createError \/ userExists(email)
     THEN /\ res' = answer("google", email, NoPassword, 500, None)
          /\ UNCHANGED <<db, auth, nextId>>
     ELSE /\ auth' = auth \cup {[id |-> nextId, email |-> email, password |-> NoPassword]}
          /\ db' = IF insertError THEN db
                   ELSE insert(db, "dim_user", dimUserRow(nextId, email, "GOOGLE", googleId))
          /\ nextId' = nextId + 1
          /\ res' = answer("google", email, NoPassword, 200, sign(nextId, email))
  /\ UNCHANGED <<parserVars, storage, calls>>

NextAuth ==
  \/ \E email \in Emails, password \in Passwords, authError, dimUserError \in BOOLEAN :
       Register(email, password, authError, dimUserError)
  \/ \E email \in Emails, password \in Passwords : Login(email, password)
  \/ \E email \in Emails, googleId \in GoogleIds, createError, insertError \in BOOLEAN :
       Google(email, googleId, createError, insertError)

SpecAuth == Init /\ [][NextAuth]_vars

\* ------------------------------------------------------------- get or create

\* The dimensions with a get-or-create helper: getOrCreateCategoryId,
\* getOrCreateDateId and getOrCreateStoreId, on dim_category, dim_date and
\* dim_store.
Dimensions == {"category", "date", "store"}

tableOf(dim) == "dim_" \o dim

Categories == {"", "Food & Dining"}

Stores == {"JOLLIBEE 123 Main St"}

Dates == {"2024-07-20", "2024-12-30", "2025-01-01"}

ArgumentsOf(dim) ==
  IF dim = "category" THEN Categories ELSE IF dim = "date" THEN Dates ELSE Stores

MonthOffsets == <<0, 3, 2, 5, 0, 3, 5, 1, 4, 6, 2, 4>>

\* The day of the week of a calendar day in year y, or in y - 1 for January
\* and February: 0 is Sunday.
DayOfWeekIn(y, day) ==
  (y + (y \div 4) - (y \div 100) + (y \div 400) + MonthOffsets[day.m] + day.d) % 7

\* Date.prototype.getDay on the local day of a date.
getDay(day) == DayOfWeekIn(IF day.m < 3 THEN day.y - 1 ELSE day.y, day)

DayNames == <<"Sunday", "Monday", "Tuesday", "Wednesday", "Thursday", "Friday", "Saturday">>

LongMonthNames ==
  << "January", "February", "March", "April", "May", "June", "July", "August",
     "September", "October", "November", "December" >>

\* The row getOrCreateDateId inserts for dateString, date being the local
\* calendar day of new Date(dateString).
DateRow(dateString, date) ==
  [ date_id |-> dateString,
    day_of_month |-> date.d,
    month |-> date.m,
    year |-> date.y,
    day_of_week |-> getDay(date) + 1,
    day_name |-> DayNames[getDay(date) + 1],
    month_name |-> LongMonthNames[date.m],
    quarter |-> ((date.m - 1) \div 3) + 1,
    week |-> (date.d + 6) \div 7,
    is_weekend |-> (getDay(date) = 0 \/ getDay(date) = 6),
    is_holiday |-> FALSE ]

\* The row a helper inserts for arg; id is the identifier the database
\* generates for a category or a store.
newRow(dim, arg, id, zone) ==
  IF dim = "date" THEN DateRow(arg, LocalDay(NewDate(Chars(arg), zone), zone))
  ELSE [id |-> id, name |-> arg]

\* The rows the lookup of a helper selects in the tables d.
selected(d, dim, arg) ==
  IF dim = "date" THEN {r \in d.dim_date : r.date_id = arg}
  ELSE {r \in d[tableOf(dim)] : r.name = arg}

\* What a helper returns for a row: its id, where None is null.
idOf(dim, row) == [id |-> IF dim = "date" THEN row.date_id ELSE row.id]

\* A helper starts; getOrCreateCategoryId returns null for an empty name.
Call(c, dim, arg) ==
  /\ calls[c] = None
  /\ calls' = [calls EXCEPT ![c] =
       [ dim |-> dim, arg |-> arg, ret |-> None,
         pc |-> IF dim = "category" /\ arg = "" THEN "done" ELSE "select" ]]
  /\ UNCHANGED <<parserVars, db, auth, storage, nextId, res>>

\* The lookup of a helper resolves.
SelectDone(c, existing) ==
  calls' = [calls EXCEPT ![c] =
    IF existing /= None THEN [@ EXCEPT !.pc = "done", !.ret = idOf(calls[c].dim, existing)]
    ELSE [@ EXCEPT !.pc = "insert"]]

Select(c) ==
  /\ calls[c] /= None
  /\ calls[c].pc = "select"
  /\ SelectDone(c, single(selected(db, calls[c].dim, calls[c].arg)))
  /\ UNCHANGED <<parserVars, db, auth, storage, nextId, res>>

\* The insert of a helper resolves: with an error the helper returns null.
Insert(c, error) ==
  /\ calls[c] /= None
  /\ calls[c].pc = "insert"
  /\ nextId <= MaxRows
  /\ IF error
     THEN /\ calls' = [calls EXCEPT ![c].pc = "done"]
          /\ UNCHANGED <<db, nextId>>
     ELSE /\ db' = insert(db, tableOf(calls[c].dim), newRow(calls[c].dim, calls[c].arg, nextId, tz))
          /\ nextId' = IF calls[c].dim = "date" THEN nextId ELSE nextId + 1
          /\ calls' = [calls EXCEPT ![c].pc = "done",
                         ![c].ret = idOf(calls[c].dim,
                                         newRow(calls[c].dim, calls[c].arg, nextId, tz))]
  /\ UNCHANGED <<parserVars, auth, storage, res>>

NextDims ==
  \/ \E c \in 1..MaxCalls, dim \in Dimensions : \E arg \in ArgumentsOf(dim) : Call(c, dim, arg)
  \/ \E c \in 1..MaxCalls : Select(c)
  \/ \E c \in 1..MaxCalls, error \in BOOLEAN : Insert(c, error)

SpecDims == Init /\ [][NextDims]_vars

\* ------------------------------------------------------------- expenses and receipts

\* req.user.userId of the authenticated requests.
Users == {"ann", "ben"}

\* The amount of a body, 0 also standing for a missing one.
Amounts == {0, 10}

\* The receipt_id of a body, 0 when the body has none.
ReceiptIds == {0, 1}

\* What may fail in a request that creates a fact row: nothing, the upload to
\* storage, the insert of a dimension row or the insert of the fact row.
Failures == {"none", "upload", "dimension", "insert"}

FactTables == {"fact_expenses", "fact_receipts"}

keyOf(table) == IF table = "fact_expenses" THEN "expense_id" ELSE "receipt_id"

\* .eq(key, id).eq('user_id', userId) without the second filter.
ownedAnyUser(d, table, id, userId) == {r \in d[table] : r[keyOf(table)] = id}

\* .eq(key, id).eq('user_id', userId) on a fact table of d.
owned(d, table, id, userId) ==
  {r \in d[table] : r[keyOf(table)] = id /\ r.user_id = userId}

\* The answer of an expenses or receipts endpoint; data is None when the
\* answer carries no row.
reply(route, userId, id, status, data) ==
  [route |-> route, user |-> userId, id |-> id, status |-> status, data |-> data]

\* The tables, the next identifier and the ids returned so far, as a handler
\* threads them through its helpers.
Start == [db |-> db, nextId |-> nextId, id |-> [dim \in Dimensions |-> None]]

\* A helper from its lookup to its return with no other request in between.
\* error is the failure of its insert; an empty category or store name
\* returns null.
getOrCreate(s, dim, arg, zone, error) ==
  IF arg = "" /\ dim /= "date" THEN s
  ELSE IF single(selected(s.db, dim, arg)) /= None
  THEN [s EXCEPT !.id[dim] = idOf(dim, single(selected(s.db, dim, arg)))]
  ELSE IF error THEN s
  ELSE [ db |-> insert(s.db, tableOf(dim), newRow(dim, arg, s.nextId, zone)),
         nextId |-> IF dim = "date" THEN s.nextId ELSE s.nextId + 1,
         id |-> [s.id EXCEPT ![dim] = idOf(dim, newRow(dim, arg, s.nextId, zone))] ]

\* POST /expenses up to its first await: 400 without amount, category or
\* date. The call c is over with its response.
Post(c, userId, amount, category, date, receipt_id) ==
  /\ calls[c] = None
  /\ IF amount = 0 \/ category = ""
     THEN /\ res' = reply("POST /expenses", userId, 0, 400, None)
          /\ UNCHANGED calls
     ELSE /\ calls' = [calls EXCEPT ![c] =
               [ route |-> "POST /expenses", userId |-> userId, amount |-> amount,
                 category |-> category, date |-> date, receipt_id |-> receipt_id,
                 pc |-> IF receipt_id /= 0 THEN "check" ELSE "create" ]]
          /\ UNCHANGED res
  /\ UNCHANGED <<parserVars, db, auth, storage, nextId>>

\* The lookup of an expense of the receipt resolves: 409 when there is one.
PostChecked(c, existingExpense) ==
  IF existingExpense /= None
  THEN /\ res' = reply("POST /expenses", calls[c].userId, existingExpense.expense_id, 409, None)
       /\ calls' = [calls EXCEPT ![c] = None]
  ELSE /\ calls' = [calls EXCEPT ![c].pc = "create"]
       /\ UNCHANGED res

PostCheck(c) ==
  /\ calls[c] /= None
  /\ calls[c].pc = "check"
  /\ PostChecked(c, single({e \in db.fact_expenses :
                              e.receipt_id = calls[c].receipt_id /\ e.user_id = calls[c].userId}))
  /\ UNCHANGED <<parserVars, db, auth, storage, nextId>>

expenseRow(id, p, ids) ==
  [ expense_id |-> id, user_id |-> p.userId, amount |-> p.amount,
    category_id |-> ids.category.id, date_id |-> ids.date.id, receipt_id |-> p.receipt_id ]

\* The rest of POST /expenses on the outcome s of its helpers: 500 when a
\* dimension id is null or the insert fails, 201 with the row otherwise.
PostCreated(c, s, insertError) ==
  IF s.id.category = None \/ s.id.date = None \/ insertError
  THEN /\ db' = s.db
       /\ nextId' = s.nextId
       /\ res' = reply("POST /expenses", calls[c].userId, 0, 500, None)
  ELSE /\ db' = insert(s.db, "fact_expenses", expenseRow(s.nextId, calls[c], s.id))
       /\ nextId' = s.nextId + 1
       /\ res' = reply("POST /expenses", calls[c].userId, s.nextId, 201,
                       expenseRow(s.nextId, calls[c], s.id))

PostCreate(c, failure) ==
  /\ calls[c] /= None
  /\ calls[c].pc = "create"
  /\ nextId <= MaxRows
  /\ \E s \in {getOrCreate(getOrCreate(Start, "category", calls[c].category, tz,
                                     failure = "dimension"),
                         "date", calls[c].date, tz, FALSE)} :
       PostCreated(c, s, failure = "insert")
  /\ calls' = [calls EXCEPT ![c] = None]
  /\ UNCHANGED <<parserVars, auth, storage>>

\* GET /expenses/:id and GET /receipts/:id
Get(table, userId, id) ==
  /\ res' = IF single(owned(db, table, id, userId)) = None
            THEN reply("GET", userId, id, 404, None)
            ELSE reply("GET", userId, id, 200, single(owned(db, table, id, userId)))
  /\ UNCHANGED <<parserVars, db, auth, storage, nextId, calls>>

\* updateData on a row: the amount, and the category when its id is not null.
updated(r, amount, categoryId) ==
  [r EXCEPT !.amount = amount,
            !.category_id = IF categoryId = None THEN @ ELSE categoryId.id]

\* PUT /expenses/:id on the outcome s of getOrCreateCategoryId.
PutWith(userId, id, amount, s) ==
  /\ db' = [s.db EXCEPT !.fact_expenses =
              (@ \ owned(s.db, "fact_expenses", id, userId))
                \cup {updated(r, amount, s.id.category) : r \in owned(s.db, "fact_expenses", id, userId)}]
  /\ nextId' = s.nextId
  /\ res' = IF single(owned(s.db, "fact_expenses", id, userId)) = None
            THEN reply("PUT", userId, id, 404, None)
            ELSE reply("PUT", userId, id, 200,
                       updated(single(owned(s.db, "fact_expenses", id, userId)), amount, s.id.category))

Put(userId, id, amount, category) ==
  /\ nextId <= MaxRows
  /\ \E s \in {getOrCreate(Start, "category", category, tz, FALSE)} :
       PutWith(userId, id, amount, s)
  /\ UNCHANGED <<parserVars, auth, storage, calls>>

\* DELETE /expenses/:id and DELETE /receipts/:id
Delete(table, userId, id) ==
  /\ db' = [db EXCEPT ![table] = @ \ owned(db, table, id, userId)]
  /\ res' = reply("DELETE", userId, id, 200, None)
  /\ UNCHANGED <<parserVars, auth, storage, nextId, calls>>

\* receipts/${userId}/${Date.now()}.jpg, the clock read as the next identifier.
fileNameOf(userId, stamp) == [userId |-> userId, stamp |-> stamp]

\* store_id is null without a merchant, so it is kept as the helper returned it.
receiptRow(id, userId, parsed, ids, publicUrl) ==
  [ receipt_id |-> id, user_id |-> userId, date_id |-> ids.date.id,
    category_id |-> ids.category.id, store_id |-> ids.store, amount |-> parsed.total,
    image_url |-> publicUrl ]

\* Steps 4 to 6 of POST /scan on the parsed receipt and the outcome s of the
\* three helpers: the upload error is logged and nothing else.
ScanStored(userId, parsed, fileName, uploadError, s, insertError) ==
  /\ storage' = IF uploadError THEN storage ELSE storage \cup {fileName}
  /\ IF s.id.category = None \/ s.id.date = None \/ insertError
     THEN /\ db' = s.db
          /\ nextId' = s.nextId
          /\ res' = reply("POST /scan", userId, 0, 500, None)
     ELSE /\ db' = insert(s.db, "fact_receipts", receiptRow(s.nextId, userId, parsed, s.id, fileName))
          /\ nextId' = s.nextId + 1
          /\ res' = reply("POST /scan", userId, s.nextId, 200,
                          receiptRow(s.nextId, userId, parsed, s.id, fileName))

\* Step 5 of POST /scan.
scanDimensions(parsed, zone, dimError) ==
  getOrCreate(
    getOrCreate(
      getOrCreate([Start EXCEPT !.nextId = nextId + 1], "category", parsed.category, zone, dimError),
      "date", parsed.date, zone, FALSE),
    "store", parsed.merchant, zone, FALSE)

\* POST /scan after step 3, on the text the OCR service returned and its
\* parsedData.
Scan(userId, failure) ==
  /\ Parsed
  /\ nextId <= MaxRows
  /\ \E s \in {scanDimensions(parsedData, tz, failure = "dimension")} :
       ScanStored(userId, parsedData, fileNameOf(userId, nextId), failure = "upload",
                  s, failure = "insert")
  /\ UNCHANGED <<parserVars, auth, calls>>

\* The :id of a request: the id of a row of the table, of whatever user, or
\* an id of no row.
RequestIds(table) == {0} \cup {r[keyOf(table)] : r \in db[table]}

\* POST /expenses requests, up to MaxCalls of them in flight.
NextPosts ==
  \/ \E c \in 1..MaxCalls, userId \in Users, amount \in Amounts, category \in Categories,
        date \in {"2024-07-20"}, receipt_id \in ReceiptIds :
       Post(c, userId, amount, category, date, receipt_id)
  \/ \E c \in 1..MaxCalls : PostCheck(c)
  \/ \E c \in 1..MaxCalls, failure \in Failures \ {"upload"} : PostCreate(c, failure)

\* The requests on expenses and receipts, one POST /expenses in flight.
NextExpenses ==
  \/ \E userId \in Users, amount \in Amounts, category \in Categories,
        date \in {"2024-07-20"}, receipt_id \in ReceiptIds :
       Post(1, userId, amount, category, date, receipt_id)
  \/ PostCheck(1)
  \/ \E failure \in Failures \ {"upload"} : PostCreate(1, failure)
  \/ \E table \in FactTables, userId \in Users : \E id \in RequestIds(table) :
       Get(table, userId, id)
  \/ \E userId \in Users, amount \in Amounts, category \in Categories :
       \E id \in RequestIds("fact_expenses") : Put(userId, id, amount, category)
  \/ \E table \in FactTables, userId \in Users : \E id \in RequestIds(table) :
       Delete(table, userId, id)
  \/ \E userId \in Users, failure \in Failures : Scan(userId, failure)

\* The requests are served at one clock reading in one zone, and the receipt
\* every scan uploads is that of scenario A, read and parsed (steps 1 to 3).
InitExpenses ==
  /\ text = ScenarioA
  /\ nchunks = 1
  /\ now \in {n \in Clock : n.d = 21}
  /\ tz = 0
  /\ parsedData = parseReceiptText(text, now, tz)
  /\ ServerInit

SpecExpenses == InitExpenses /\ [][NextExpenses]_vars

SpecPosts == InitExpenses /\ [][NextPosts]_vars

\* ------------------------------------------------------------- claims

Fields == {"merchant", "date", "total", "items", "category", "rawText"}

HasWarning == "warning" \in DOMAIN parsedData

NoDigits(cs) == \A i \in 1..Len(cs) : cs[i] \notin Digit

NoLetters(cs) == \A i \in 1..Len(cs) : cs[i] \notin Letter

AllBlank(cs) == \A i \in 1..Len(cs) : cs[i] \in Space

\* The year an ISO date string begins with.
YearOf(date) == NumVal(Chars(date), 1, 4)

\* C1: the returned record carries a warning field if and only if its total
\* is 0.
C1_WarningIffZeroTotal ==
  Parsed => (HasWarning <=> parsedData.total = Zero)

\* C2: for every input text the returned total is a number with
\* 0 <= total < 1,000,000, whichever phase produced it.
C2_TotalInRange ==
  Parsed => /\ DOMAIN parsedData.total = {"i", "f"}
            /\ parsedData.total.i >= 0 /\ parsedData.total.f >= 0
            /\ parsedData.total.i < 1000000

\* A labeled amount of 1,000,000.00 was matched and rejected, and the fallback
\* produced 97.00.
C2_Witness ==
  /\ Parsed
  /\ text = "TOTAL 1,000,000.00" \o "\n" \o ScenarioC
  /\ parsedData.total = Dec(97, 0)

\* C3: the year of the returned date is greater than 2000 and at most the
\* current year.
C3_DateYearInRange ==
  Parsed => /\ YearOf(parsedData.date) > 2000
            /\ YearOf(parsedData.date) <= LocalDay(now, tz).y

\* C4: every returned item has a price greater than 0 and below 0.9 times the
\* returned total and a name without an exclusion keyword in any letter case;
\* so there is no item when the total is 0.
C4_ItemsBelowTotal ==
  Parsed =>
    /\ \A k \in 1..Len(parsedData.items) :
         LET item == parsedData.items[k] IN
         /\ LT(Zero, item.price)
         /\ LT(Times(item.price, 10), Times(parsedData.total, 9))
         /\ \A w \in {"total", "amount", "subtotal", "tax", "balance", "change", "discount"} :
              ~includes(toLowerCase(Chars(item.name)), Chars(w))
    /\ (parsedData.total = Zero => parsedData.items = <<>>)

\* Scenario A followed by a line priced at 120.00 of a total of 130.00: the
\* two cheaper lines are items, the 120.00 line and the TOTAL line are not.
C4_Witness ==
  /\ Parsed
  /\ text = ScenarioA \o "\n" \o "Combo 120.00"
  /\ parsedData.total = Dec(130, 0)
  /\ Len(parsedData.items) = 2

\* C5: for every input string a record with all six fields is returned, and a
\* field that cannot be extracted holds its default: a text without a digit
\* has total 0, no item and the current date; a blank text has the merchant
\* "Unknown Merchant"; a text without a letter has the category
\* "Uncategorized".
C5_DefaultsOnMalformedInput ==
  Parsed =>
    LET cs == Chars(text) IN
    /\ DOMAIN parsedData = Fields
    /\ parsedData.rawText = text
    /\ (NoDigits(cs) => /\ parsedData.total = Zero
                        /\ parsedData.items = <<>>
                        /\ parsedData.date = toISODate(now))
    /\ (AllBlank(cs) => parsedData.merchant = "Unknown Merchant")
    /\ (NoLetters(cs) => parsedData.category = "Uncategorized")

\* A blank line and a malformed date: every field holds its default.
C5_Witness ==
  /\ Parsed
  /\ text = " " \o "\n" \o "13/45/2024"
  /\ parsedData = [merchant |-> "Unknown Merchant", date |-> toISODate(now),
                   total |-> Zero, items |-> <<>>, category |-> "Uncategorized",
                   rawText |-> text]

\* C7: Scenario A gives a merchant containing JOLLIBEE, the date 2024-07-20,
\* the total 130.00, the items Burger 85.00 and Fries 45.00 in this order and
\* the category Food & Dining.
C7_ScenarioA ==
  (Parsed /\ text = ScenarioA) =>
    /\ includes(Chars(parsedData.merchant), Chars("JOLLIBEE"))
    /\ parsedData.date = "2024-07-20"
    /\ parsedData.total = Dec(130, 0)
    /\ parsedData.items = << [name |-> "Burger", price |-> Dec(85, 0)],
                             [name |-> "Fries", price |-> Dec(45, 0)] >>
    /\ parsedData.category = "Food & Dining"

\* The digits of the text are exactly those of one token "JUL 20, 25".
OnlyJul2025(cs) ==
  /\ includes(cs, Chars("JUL 20, 25"))
  /\ Cardinality({i \in 1..Len(cs) : cs[i] \in Digit}) = 4

\* C8: a text with "JUL 20, 25" and no other date resolves its date to
\* 2025-07-20.
C8_TextualMonthTwoDigitYear ==
  (Parsed /\ OnlyJul2025(Chars(text))) => parsedData.date = "2025-07-20"

\* The values of the numbers of the text written with exactly two decimal
\* digits: a run of digits and commas, a dot and two digits, no digit after.
TwoDecimalValues(cs) ==
  { parseFloat(StripCommas(SubSeq(cs, i, i + Run(cs, i, DigitOrComma) + 2))) :
      i \in { j \in 1..Len(cs) :
                /\ cs[j] \in DigitOrComma
                /\ At(cs, j - 1) \notin DigitOrComma
                /\ At(cs, j + Run(cs, j, DigitOrComma)) = "."
                /\ DigitsAt(cs, j + Run(cs, j, DigitOrComma) + 1, 2)
                /\ At(cs, j + Run(cs, j, DigitOrComma) + 3) \notin Digit } }

\* C9: when no labeled total is resolved, the total is the largest number of
\* the entire text that is written with two decimal digits and lies in
\* (0, 1,000,000).
C9_FallbackOverEntireText ==
  (Parsed /\ labeledTotal(Chars(text), 1) = Zero) =>
    LET vs == {v \in TwoDecimalValues(Chars(text)) :
                 v /= NaN /\ LT(Zero, v) /\ v.i < 1000000} IN
    IF vs = {} THEN parsedData.total = Zero
    ELSE /\ parsedData.total \in vs
         /\ \A v \in vs : ~LT(parsedData.total, v)

\* No date pattern yields a date that parses and whose local year lies in
\* (2000, current year].
NoValidDate ==
  \A k \in 1..5 :
    LET m == datePatterns(Chars(text), k)
        t == NewDate(dateStr(Matched(Chars(text), m)), tz)
    IN \/ m.at = 0
       \/ t = NaN
       \/ LocalDay(t, tz).y <= 2000
       \/ LocalDay(t, tz).y > LocalDay(now, tz).y

\* C10: when no date pattern yields a valid date the returned date is the
\* current date, and the record has no warning on account of the date.
C10_DateDefaultsToCurrentDate ==
  (Parsed /\ NoValidDate) =>
    /\ parsedData.date = toISODate(now)
    /\ (LT(Zero, parsedData.total) => ~HasWarning)

\* A date of the year 2031 is matched and rejected, the date is the current
\* one, the total is resolved and there is no warning.
C10_Witness ==
  /\ Parsed
  /\ text = "3/15/2031" \o "\n" \o ScenarioC
  /\ parsedData.date = toISODate(now)
  /\ parsedData.total = Dec(97, 0)
  /\ ~HasWarning

\* The categories in the order the classification tests them.
CategoryOrder ==
  <<"Food & Dining", "Groceries", "Utilities", "Transportation", "Shopping", "Healthcare">>

\* A keyword of the k-th category occurs in the lower-cased merchant or in
\* the lower-cased raw text.
CategoryHit(k) ==
  \E w \in 1..Len(categoryKeywords[k].keywords) :
    \/ includes(toLowerCase(Chars(parsedData.merchant)), categoryKeywords[k].keywords[w])
    \/ includes(toLowerCase(Chars(text)), categoryKeywords[k].keywords[w])

MerchantHasPharmacy ==
  includes(toLowerCase(Chars(parsedData.merchant)), Chars("pharmacy"))

\* C11: whenever the merchant contains the keyword "pharmacy" the category is
\* Healthcare, whatever keywords of other categories occur in the merchant or
\* in the raw text.
C11_PharmacyAlwaysHealthcare ==
  (Parsed /\ MerchantHasPharmacy) => parsedData.category = "Healthcare"

\* C11 as amended: whenever the merchant contains the keyword "pharmacy" and
\* no keyword of the five categories tested before Healthcare occurs in the
\* merchant or in the raw text, the category is Healthcare.
C11_PharmacyHealthcareUnlessEarlier ==
  (Parsed /\ MerchantHasPharmacy /\ \A k \in 1..5 : ~CategoryHit(k)) =>
    parsedData.category = "Healthcare"

\* A pharmacy receipt with a further line that carries no keyword.
C11_Witness ==
  /\ Parsed
  /\ text = "Rose Pharmacy" \o "\n" \o "1234"
  /\ parsedData.merchant = "Rose Pharmacy"
  /\ parsedData.category = "Healthcare"

\* C13: the category is that of the first category, in the order Food &
\* Dining, Groceries, Utilities, Transportation, Shopping, Healthcare, with a
\* keyword in the lower-cased merchant or the lower-cased raw text, and it is
\* "Uncategorized" exactly when no category has one.
C13_FirstCategoryInOrder ==
  Parsed =>
    /\ \A k \in 1..6 :
         (CategoryHit(k) /\ \A j \in 1..(k - 1) : ~CategoryHit(j)) =>
           parsedData.category = CategoryOrder[k]
    /\ (parsedData.category = "Uncategorized" <=> \A k \in 1..6 : ~CategoryHit(k))

\* Keywords of Groceries (store), Transportation (shell) and of no earlier
\* category: Groceries wins.
C13_Witness ==
  /\ Parsed
  /\ text = "Shell" \o "\n" \o "Corner Store"
  /\ parsedData.category = "Groceries"

\* 2000 + yy below the pivot 50, 1900 + yy from it on.
Pivot(yy) == IF yy < 50 THEN 2000 + yy ELSE 1900 + yy

\* Month name, a day of a digits, an optional comma and a 2-digit year at i
\* (the sixth pattern of the specification): the calendar day it writes.
MonthDayShortYear(s, i, a) ==
  LET mw == MonthWord(s, i)
      c == IF At(s, i + mw + a) = "," THEN 1 ELSE 0
      w == Run(s, i + mw + a + c, Space)
      y == i + mw + a + c + w
  IN IF /\ mw > 0 /\ DigitsAt(s, i + mw, a) /\ w > 0
        /\ DigitsAt(s, y, 2) /\ At(s, y + 2) \notin Digit
     THEN [ok |-> TRUE, y |-> Pivot(NumVal(s, y, 2)), m |-> MonthAt(s, i),
           d |-> NumVal(s, i + mw, a)]
     ELSE [ok |-> FALSE, y |-> 0, m |-> 0, d |-> 0]

\* A real calendar day whose year lies in (2000, current year].
ValidDay(y, m, d) ==
  /\ m \in 1..12 /\ d >= 1 /\ d <= DaysInMonth(y, m)
  /\ y > 2000 /\ y <= LocalDay(now, tz).y

ISODay(y, m, d) == Str(Pad4(y) \o <<"-">> \o Pad2(m) \o <<"-">> \o Pad2(d))

\* The date the k-th of the five patterns of the code yields, "none" when its
\* match is missing, does not parse or is out of range.
YieldOf(k) ==
  LET m == datePatterns(Chars(text), k)
      t == NewDate(dateStr(Matched(Chars(text), m)), tz)
  IN IF m.at > 0 /\ t /= NaN /\ LocalDay(t, tz).y > 2000 /\ LocalDay(t, tz).y <= LocalDay(now, tz).y
     THEN toISODate(t) ELSE "none"

\* The date the sixth pattern yields at its leftmost match, "none" likewise.
SixthYield ==
  LET cs == Chars(text)
      hits == {i \in 1..Len(cs) : \E a \in {1, 2} : MonthDayShortYear(cs, i, a).ok}
      c == IF MonthDayShortYear(cs, Min(hits), 2).ok
           THEN MonthDayShortYear(cs, Min(hits), 2) ELSE MonthDayShortYear(cs, Min(hits), 1)
  IN IF hits /= {} /\ ValidDay(c.y, c.m, c.d) THEN ISODay(c.y, c.m, c.d) ELSE "none"

\* C14: the date is produced by the first pattern, in the order 4-digit-year
\* numeric, YYYY-MM-DD, day + month name + 4-digit year, month name + day +
\* 4-digit year, 2-digit-year numeric, month name + day + 2-digit year, that
\* yields a valid in-range date; a pattern whose candidate is invalid is
\* skipped, no later pattern overrides an earlier valid one, and the current
\* date stands when none yields.
C14_FirstValidPatternOfSix ==
  Parsed =>
    LET Y(k) == IF k <= 5 THEN YieldOf(k) ELSE SixthYield
        ks == {k \in 1..6 : Y(k) /= "none"}
    IN parsedData.date = IF ks = {} THEN toISODate(now) ELSE Y(Min(ks))

\* The digits of the text are exactly those of one DD-MM-YY token at i.
OnlyShortDateAt(cs, i) ==
  /\ datePattern5(cs, i) = 8
  /\ Cardinality({j \in 1..Len(cs) : cs[j] \in Digit}) = 6

\* C15: a text whose only date is written DD-MM-YY or DD/MM/YY resolves to
\* the day DD of the month MM of the year 2000+YY (YY < 50) or 1900+YY,
\* provided that is a calendar day of a year in (2000, current year]; day and
\* month are not exchanged and the current date is not used instead.
C15_DayMonthShortYear ==
  Parsed =>
    \A i \in 1..Len(text) :
      LET cs == Chars(text)
          d == NumVal(cs, i, 2)
          m == NumVal(cs, i + 3, 2)
          y == Pivot(NumVal(cs, i + 6, 2))
      IN (OnlyShortDateAt(cs, i) /\ ValidDay(y, m, d)) => parsedData.date = ISODay(y, m, d)

\* The labels of the labeled-total phase.
AllLabels == TotalLabels \o AmountLabels

\* Every labeled amount of the text that lies in (0, 1,000,000), by the
\* position of its label, for the labels given.
AcceptedAmounts(labels) ==
  LET cs == Chars(text)
      amount(i, k) == parseFloat(StripCommas(Group(cs, Labeled(cs, i, <<labels[k]>>))))
  IN { [at |-> i, value |-> amount(i, k)] :
         <<i, k>> \in { p \in (1..Len(cs)) \X (1..Len(labels)) :
                          /\ Labeled(cs, p[1], <<labels[p[2]]>>).len > 0
                          /\ amount(p[1], p[2]) /= NaN
                          /\ LT(Zero, amount(p[1], p[2]))
                          /\ amount(p[1], p[2]).i < 1000000 } }

\* The accepted amounts whose label is the token TOTAL.
TotalLabeled == AcceptedAmounts(<<Chars("total")>>)

\* C16: when an accepted labeled amount carries the token TOTAL, the total is
\* a TOTAL-labeled value, whatever the order of the labeled lines (a BALANCE
\* or AMOUNT DUE line before the TOTAL line does not win).
C16_TotalLabelWins ==
  (Parsed /\ TotalLabeled /= {}) =>
    \E x \in TotalLabeled : parsedData.total = x.value

\* C17: when no accepted labeled amount carries the token TOTAL, the total is
\* the largest of all accepted labeled amounts, and an out-of-range labeled
\* amount does not keep a later one from being accepted.
C17_LargestLabeledAmount ==
  (Parsed /\ TotalLabeled = {} /\ AcceptedAmounts(AllLabels) /= {}) =>
    /\ \E x \in AcceptedAmounts(AllLabels) : parsedData.total = x.value
    /\ \A x \in AcceptedAmounts(AllLabels) : ~LT(parsedData.total, x.value)

\* The normalized lines of the specification: the lines that are not empty
\* after trimming, each trimmed, in input order.
NormalizedLines ==
  LET kept == SelectSeq(split(Chars(text)), LAMBDA l : trim(l) /= <<>>)
  IN [k \in 1..Len(kept) |-> trim(kept[k])]

\* C18: the lines the extractors use are the normalized lines, each in
\* trimmed form and in input order; so a line "name price" with trailing
\* whitespace is matched as an item exactly like the line without it.
C18_LinesAreTrimmed ==
  Parsed =>
    /\ lines(Chars(text)) = NormalizedLines
    /\ \A k \in 1..Len(NormalizedLines) :
         itemPattern(lines(Chars(text))[k]).ok = itemPattern(NormalizedLines[k]).ok

\* A normalized line qualifies as an item: it reads "name price" with a
\* two-decimal price at its end, the name has no exclusion keyword, and
\* 0 < price < 0.9 x total.
Qualifies(l) ==
  LET m == itemPattern(l)
      price == parseFloat(StripCommas(m.group))
  IN /\ m.ok
     /\ \A w \in {"total", "amount", "subtotal", "tax", "balance", "change", "discount"} :
          ~includes(toLowerCase(trim(m.name)), Chars(w))
     /\ LT(Zero, price)
     /\ LT(Times(price, 10), Times(parsedData.total, 9))

\* C19: the items are exactly the qualifying normalized lines, in source
\* order and with duplicates kept: none dropped, merged or reordered.
C19_ItemsAreQualifyingLines ==
  Parsed =>
    LET q == SelectSeq(NormalizedLines, Qualifies)
    IN parsedData.items =
         [k \in 1..Len(q) |->
            [name |-> Str(trim(itemPattern(q[k]).name)),
             price |-> parseFloat(StripCommas(itemPattern(q[k]).group))]]

\* The lines among the first five normalized lines that are longer than 3
\* characters, not all digits and not a short numeric date.
MerchantCandidates ==
  SelectSeq(SubSeq(NormalizedLines, 1, IF Len(NormalizedLines) < 5 THEN Len(NormalizedLines) ELSE 5),
            LAMBDA l : Len(l) > 3 /\ (\E i \in 1..Len(l) : l[i] \notin Digit) /\ ~IsShortDate(l))

\* C20: the merchant is the first two candidates among the first five
\* normalized lines, joined by one space and cut to 100 characters, and
\* "Unknown Merchant" when there is no candidate; it is never empty and never
\* longer than 100 characters.
C20_MerchantFromFirstFiveLines ==
  Parsed =>
    LET q == MerchantCandidates
        joined == IF Len(q) = 1 THEN q[1] ELSE q[1] \o <<" ">> \o q[2]
    IN /\ parsedData.merchant =
            IF q = <<>> THEN "Unknown Merchant"
            ELSE Str(SubSeq(joined, 1, IF Len(joined) < 100 THEN Len(joined) ELSE 100))
       /\ parsedData.merchant /= ""
       /\ Len(parsedData.merchant) <= 100

\* Two lines of 61 characters: the joined 123 characters are cut to 100.
C20_Witness ==
  /\ Parsed
  /\ text = LongLine \o "X" \o "\n" \o LongLine \o "X"
  /\ Len(parsedData.merchant) = 100


\* The lines of the text, as written.
WrittenLines == split(Chars(text))

\* C28: when a line labeled SUBTOTAL is followed, later in the text, by a line
\* labeled TOTAL with a different in-range amount, the total is the amount of
\* the TOTAL line and never that of the SUBTOTAL line.
C28_TotalNotInsideSubtotal ==
  Parsed =>
    ((\E i, j \in 1..Len(WrittenLines) :
        /\ i < j
        /\ WrittenLines[i] = Chars("SUBTOTAL 100.00")
        /\ WrittenLines[j] = Chars("TOTAL 112.00"))
     => parsedData.total = Dec(112, 0))

\* The instant the code reads off the match of the k-th pattern.
DateRead(k) == NewDate(dateStr(Matched(Chars(text), datePatterns(Chars(text), k))), tz)

\* C29: when a pattern accepts a date of the text, the returned ISO date names
\* the calendar day that was read and whose year was tested, in every time
\* zone of the process.
C29_SameCalendarDay ==
  Parsed =>
    \A k \in 1..NumDatePatterns :
      (YieldOf(k) /= "none" /\ \A j \in 1..(k - 1) : YieldOf(j) = "none")
        => parsedData.date = toISODate(LocalDay(DateRead(k), tz))

\* The digits of the text are exactly those of one numeric date with a
\* four-digit year at i, and that year is outside (2000, current year].
OnlyRejectedLongDateAt(cs, i) ==
  /\ datePattern1(cs, i) = 10
  /\ Cardinality({j \in 1..Len(cs) : cs[j] \in Digit}) = 8
  /\ (NumVal(cs, i + 6, 4) <= 2000 \/ NumVal(cs, i + 6, 4) > LocalDay(now, tz).y)

\* C30: when the only date of the text is a numeric date with a four-digit
\* year outside (2000, current year], the date is the current date; the
\* rejected token is not read again as a date with a two-digit year.
C30_RejectedDateNotReread ==
  Parsed =>
    ((\E i \in 1..Len(text) : OnlyRejectedLongDateAt(Chars(text), i))
       => parsedData.date = toISODate(now))

\* C22: a POST /google request, which proves neither a Google credential nor a
\* password, obtains no token for the userId of an account that was created
\* with a password.
C22_NoTokenWithoutProof ==
  (res /= None /\ res.route = "google" /\ res.token /= None) =>
    \A u \in auth : u.id = res.token.userId => u.password = NoPassword

\* C25: once POST /register has answered 201 for an email and a password
\* (Supabase Auth then holds the user with that password), POST /login with the
\* same email and password answers 200 with a token for the same user id.
C25_LoginAfterRegister ==
  (res /= None /\ res.route = "login") =>
    \A u \in auth :
      (u.email = res.email /\ u.password = res.password)
        => (res.status = 200 /\ res.token = sign(u.id, u.email))

\* The calendar day a date string YYYY-MM-DD writes.
WrittenDay(dateString) ==
  [ y |-> NumVal(Chars(dateString), 1, 4),
    m |-> NumVal(Chars(dateString), 6, 2),
    d |-> NumVal(Chars(dateString), 9, 2) ]

\* The ISO 8601 week number of a calendar day.
ISOWeek(day) ==
  LET wd(t) == IF getDay(t) = 0 THEN 7 ELSE getDay(t)
      RECURSIVE before(_, _)
      before(y, m) == IF m = 1 THEN 0 ELSE before(y, m - 1) + DaysInMonth(y, m - 1)
      doy == before(day.y, day.m) + day.d
      jan1(y) == wd([y |-> y, m |-> 1, d |-> 1])
      weeks(y) == IF jan1(y) = 4 \/ (IsLeap(y) /\ jan1(y) = 3) THEN 53 ELSE 52
      w == (doy - wd(day) + 10) \div 7
  IN IF w < 1 THEN weeks(day.y - 1) ELSE IF w > weeks(day.y) THEN 1 ELSE w

\* C21: a row of dim_date carries the calendar attributes of its date:
\* day-of-month, month, year, day-of-week, quarter, the ISO week number and a
\* weekend flag that is true exactly on Saturday and Sunday.
C21_CalendarAttributes ==
  \A r \in db.dim_date :
    LET day == WrittenDay(r.date_id) IN
    /\ r.day_of_month = day.d /\ r.month = day.m /\ r.year = day.y
    /\ r.day_of_week = getDay(day) + 1
    /\ r.quarter = ((day.m - 1) \div 3) + 1
    /\ r.week = ISOWeek(day)
    /\ r.is_weekend = (getDay(day) \in {0, 6})

\* C23: the dimension table holds at most one row of a name, and the calls of
\* a helper that returned an id for the same name returned the same id.
C23_AtomicGetOrCreate ==
  /\ \A dim \in {"category", "store"} :
       \A r1, r2 \in db[tableOf(dim)] : r1.name = r2.name => r1 = r2
  /\ \A c1, c2 \in 1..MaxCalls :
       ( /\ calls[c1] /= None /\ calls[c2] /= None
         /\ calls[c1].pc = "done" /\ calls[c2].pc = "done"
         /\ calls[c1].dim = calls[c2].dim /\ calls[c1].arg = calls[c2].arg
         /\ calls[c1].ret /= None /\ calls[c2].ret /= None )
       => calls[c1].ret = calls[c2].ret

\* C24: fact_expenses holds at most one row for a user and a receipt_id.
C24_OneExpensePerReceipt ==
  \A e1, e2 \in db.fact_expenses :
    (e1.user_id = e2.user_id /\ e1.receipt_id = e2.receipt_id /\ e1.receipt_id /= 0)
      => e1 = e2

\* C27: every row of fact_receipts has an image_url that refers to an image
\* held by the storage bucket.
C27_ReceiptImageStored ==
  \A r \in db.fact_receipts : r.image_url \in storage

\* The rows of the fact tables that belong to other users than userId.
RowsOfOthers(d, userId) == [t \in FactTables |-> {r \in d[t] : r.user_id /= userId}]

\* A step is the GET, PUT or DELETE of userId on the row id of the table.
IsRequestOnRow(table, userId, id) ==
  \/ Get(table, userId, id)
  \/ Delete(table, userId, id)
  \/ /\ table = "fact_expenses"
     /\ \E amount \in Amounts, category \in Categories : Put(userId, id, amount, category)

\* C26: a GET, PUT or DELETE on /expenses/:id or /receipts/:id by a user
\* leaves every row of the other users as it is, and the row it answers with,
\* if any, is a row of the requester. (Such a step answers with its route,
\* its user and its id.)
C26_OnlyOwnRows ==
  [][(res' /= None /\ res'.route \in {"GET", "PUT", "DELETE"}) =>
       \A table \in FactTables :
         IsRequestOnRow(table, res'.user, res'.id)
           => /\ RowsOfOthers(db', res'.user) = RowsOfOthers(db, res'.user)
              /\ res'.data /= None => res'.data.user_id = res'.user]_vars

\* A GET that names the id of another user's expense was answered 404 without
\* data, the row being in the table.
C26_Witness ==
  /\ res /= None
  /\ res.route = "GET"
  /\ res.status = 404
  /\ res.data = None
  /\ \E r \in db.fact_expenses : r.expense_id = res.id /\ r.user_id /= res.user

====
